---- MODULE Spec2Model ----
(***************************************************************************)
(* The refresh cycle (fetchData) of the three Pi-hole v6 widgets:          *)
(*   PiHoleTopQueries  src/components/Widgets/PiHoleTopQueries.vue 26-114  *)
(*   PiHoleStats       src/components/Widgets/PiHoleTopQueries.vue 189-339 *)
(*   PiHoleTraffic     src/components/Widgets/PiHoleTraffic.vue    12-183  *)
(* One behaviour follows one component instance (kind, options are its     *)
(* props).  A cycle is suspended at each await; the appliance answers with *)
(* any response of the sets below.  fetch() and the following .json() are  *)
(* taken as one step: nothing the component owns changes between them.     *)
(***************************************************************************)
EXTENDS Integers, Sequences, FiniteSets, TLC

VARIABLES
  kind,          \* which component this instance is
  options,       \* its props.options
  serialized,    \* TRUE when the caller never starts a cycle while one is alive
  scenario,      \* which sets the appliance's answers and the clock's readings
                 \* are drawn from
  pc,            \* per cycle: where fetchData is suspended, or how it ended
  locals,        \* per cycle: the let/const bindings of fetchData
  err,           \* per cycle: the error re-thrown by the catch block
  requests,      \* per cycle: the requests it handed to fetch(), in order
  data,          \* this.data (PiHoleStats, PiHoleTopQueries)
  labels,        \* this.labels (PiHoleTraffic)
  queriesData,   \* this.queriesData (PiHoleTraffic)
  blockedData,   \* this.blockedData (PiHoleTraffic)
  chartInstance  \* this.chartInstance: Null until a chart was created

vars == <<kind, options, serialized, scenario, pc, locals, err, requests, data,
          labels, queriesData, blockedData, chartInstance>>

-----------------------------------------------------------------------------
(* Bounds *)

\* cycles that can be alive at once (slots for fetchData activations)
MaxOverlap == 2

\* the short series lengths 0..MaxSmallLen tried next to the long ones
MaxSmallLen == 1

Cycles == 1..MaxOverlap

-----------------------------------------------------------------------------
(* JavaScript values, tagged with what typeof / Array.isArray tell apart *)

Undefined == [t |-> "undefined"]
Null == [t |-> "null"]
Bool(b) == [t |-> "boolean", v |-> b]
Num(n) == [t |-> "number", v |-> n]
Str(s) == [t |-> "string", v |-> s]
Arr(s) == [t |-> "array", v |-> s]
Obj(f) == [t |-> "object", v |-> f]
EmptyObject == Obj([k \in {} |-> Undefined])

Truthy(x) ==
  CASE x.t = "undefined" -> FALSE
    [] x.t = "null" -> FALSE
    [] x.t = "boolean" -> x.v
    [] x.t = "number" -> x.v # 0
    [] x.t = "string" -> x.v # ""
    [] OTHER -> TRUE

Typeof(x) ==
  IF x.t \in {"object", "array", "null"} THEN "object" ELSE x.t

IsArray(x) == x.t = "array"

\* reading a property of null or undefined throws a TypeError
Nullish(x) == x.t \in {"undefined", "null"}

\* x.k for a non-nullish x; a key that is not there reads as undefined
Get(x, k) ==
  IF x.t = "object" /\ k \in DOMAIN x.v THEN x.v[k] ELSE Undefined

\* o.k = val on an object
Put(o, k, val) ==
  Obj([f \in (DOMAIN o.v) \cup {k} |-> IF f = k THEN val ELSE o.v[f]])

Error(msg) == [name |-> "Error", message |-> msg]
TypeError == [name |-> "TypeError", message |-> "Cannot read properties"]
NetworkError == [name |-> "TypeError", message |-> "Failed to fetch"]
NoError == [name |-> "", message |-> ""]

-----------------------------------------------------------------------------
(* What the instance is configured with *)

Kinds == {"PiHoleStats", "PiHoleTopQueries", "PiHoleTraffic"}

\* props.options: apiKey may be left out; count and hideChart are read by
\* PiHoleTopQueries and PiHoleStats only
CountOptions ==
  {Undefined, Num(5), Num(0), Num(-3), Str("7"), Str("abc"), Str("2.5")}

OptionSets(k) ==
  { [apiKey |-> a, count |-> n, hideChart |-> h] :
      a \in {Undefined, Str(""), Str("s3cr3t")},
      n \in (IF k = "PiHoleTopQueries" THEN CountOptions ELSE {Undefined}),
      h \in (IF k = "PiHoleStats" THEN BOOLEAN ELSE {FALSE}) }

\* const password = this.options.apiKey || ''
password == IF Truthy(options.apiKey) THEN options.apiKey ELSE Str("")

NaN == [t |-> "NaN"]

\* the characters of the strings an instance is configured with here
Chars(s) ==
  CASE s = "7" -> <<"7">>
    [] s = "abc" -> <<"a", "b", "c">>
    [] s = "2.5" -> <<"2", ".", "5">>
    [] s = "s3cr3t" -> <<"s", "3", "c", "r", "3", "t">>
    [] s = "" -> <<>>

DigitChars == <<"0", "1", "2", "3", "4", "5", "6", "7", "8", "9">>
IsDigit(ch) == \E i \in DOMAIN DigitChars : DigitChars[i] = ch
DigitValue(ch) == (CHOOSE i \in DOMAIN DigitChars : DigitChars[i] = ch) - 1

RECURSIVE DigitPrefix(_)
DigitPrefix(chars) ==
  IF chars = <<>> \/ ~IsDigit(Head(chars)) THEN <<>>
  ELSE <<Head(chars)>> \o DigitPrefix(Tail(chars))

RECURSIVE DecimalValue(_)
DecimalValue(digits) ==
  IF digits = <<>> THEN 0
  ELSE DecimalValue(SubSeq(digits, 1, Len(digits) - 1)) * 10
         + DigitValue(digits[Len(digits)])

RECURSIVE TrimStart(_)
TrimStart(chars) ==
  IF chars # <<>> /\ Head(chars) = " " THEN TrimStart(Tail(chars)) ELSE chars

\* parseInt(string): leading white space, an optional sign, then the longest
\* run of decimal digits; NaN when there is no digit
ParseIntString(chars) ==
  LET trimmed == TrimStart(chars)
      signed == trimmed # <<>> /\ Head(trimmed) \in {"+", "-"}
      digits == DigitPrefix(IF signed THEN Tail(trimmed) ELSE trimmed)
  IN IF digits = <<>> THEN NaN
     ELSE IF signed /\ Head(trimmed) = "-" THEN Num(0 - DecimalValue(digits))
     ELSE Num(DecimalValue(digits))

\* parseInt(x): x is converted to a string first; an integer number reads
\* back as itself, undefined reads as "undefined"
ParseInt(x) ==
  CASE x.t = "number" -> x
    [] x.t = "string" -> ParseIntString(Chars(x.v))
    [] OTHER -> NaN

countZeroAllowed ==
  LET c == ParseInt(options.count)
  IN IF c.t = "number" /\ c.v >= 0 THEN c.v ELSE 10

\* computed count(): (Number.isInteger(c) && c > 0) ? c : 10
count ==
  LET c == ParseInt(options.count)
  IN IF c.t = "number" /\ c.v > 0 THEN c.v ELSE 10

-----------------------------------------------------------------------------
(* Requests.  url is the part after baseUrl. *)

AuthRequest ==
  [method |-> "POST", url |-> "/api/auth",
   headers |-> ("Content-Type" :> "application/json"),
   body |-> Obj([password |-> password])]

\* sid ? { Accept, sid } : { Accept }
Headers(sid) ==
  IF Truthy(sid)
  THEN [Accept |-> "application/json", sid |-> sid]
  ELSE [Accept |-> "application/json"]

GetRequest(url, sid) == [method |-> "GET", url |-> url, headers |-> Headers(sid)]

blockedUrl == "/api/stats/top_domains?blocked=true&count=" \o ToString(count)
allowedUrl == "/api/stats/top_domains?blocked=false&count=" \o ToString(count)
summaryUrl == "/api/stats/summary"
statusUrl == "/api/dns/blocking"
historyUrl == "/api/history"

-----------------------------------------------------------------------------
(* What the appliance may answer *)

Session(sid, valid, message) ==
  Obj([session |-> Obj([sid |-> sid, valid |-> Bool(valid), message |-> Str(message)])])

NoPasswordSet == Session(Null, TRUE, "no password set")
PasswordRejected == Session(Null, FALSE, "password incorrect")
NoSessionObject == Obj([error |-> Str("bad_request")])
SessionWithoutSid ==
  Obj([session |-> Obj([valid |-> Bool(FALSE), message |-> Str("invalid")])])

AuthBodies ==
  { Null, NoSessionObject, Obj([session |-> Null]), SessionWithoutSid,
    NoPasswordSet, PasswordRejected,
    Session(Str("tokA"), TRUE, "correct password"),
    Session(Str("tokB"), TRUE, "correct password") }

\* a response: its ok flag and, when ok, the value .json() gives
Responses(bodies) ==
  {[ok |-> FALSE, body |-> Undefined]} \cup {[ok |-> TRUE, body |-> b] : b \in bodies}

AdsMapping == Obj(("ads.example" :> Num(5)) @@ ("track.example" :> Num(2)))
QueriesMapping == Obj(("example.com" :> Num(9)))

TopPayloads ==
  { Null, Arr(<<Str("ads.example")>>), Num(7), Str("oops"), Bool(TRUE),
    EmptyObject, AdsMapping, QueriesMapping,
    Obj([top_sources |-> Obj([client |-> Num(3)])]),
    Obj([top_sources |-> Num(0)]) }

SummaryFields ==
  {"domains_being_blocked", "dns_queries_today", "ads_blocked_today",
   "ads_percentage_today"}

\* ads_percentage_today, when a number, is carried in hundredths of a percent
TypicalSummary ==
  Obj([domains_being_blocked |-> Num(1000), dns_queries_today |-> Num(200),
       ads_blocked_today |-> Num(25), ads_percentage_today |-> Num(1234)])

ZeroSummary == Obj([f \in SummaryFields |-> Num(0)])

Without(o, k) == Obj([f \in (DOMAIN o.v) \ {k} |-> o.v[f]])

SummaryPayloads ==
  { Null, EmptyObject, TypicalSummary, ZeroSummary,
    Put(TypicalSummary, "ads_percentage_today", Str("12.3")),
    Put(Obj([f \in SummaryFields |-> Num(1)]), "unique_clients", Num(4)) }
  \cup { Without(TypicalSummary, k) : k \in SummaryFields }

StatusPayloads ==
  { Null, EmptyObject, Obj([blocking |-> Bool(TRUE)]), Obj([blocking |-> Bool(FALSE)]),
    Obj([blocking |-> Str("disabled")]) }

FullDay == 144

SeriesLens == (0..MaxSmallLen) \cup {50, 80, FullDay, FullDay + 1}

\* sample values only the chart reads; the two series differ at every length
DomainsSeries(n) == [i \in 1..n |-> ((i * 3) % 7) + 1]
AdsSeries(n) == [i \in 1..n |-> i % 4]

HistoryPayloads ==
  { Null, EmptyObject,
    Obj([domains_over_time |-> Arr(DomainsSeries(2))]),
    Obj([ads_over_time |-> Arr(AdsSeries(2))]),
    Obj([domains_over_time |-> Num(5), ads_over_time |-> Arr(AdsSeries(2))]) }
  \cup { Obj([domains_over_time |-> Arr(DomainsSeries(n)),
              ads_over_time |-> Arr(AdsSeries(m))]) : n \in SeriesLens, m \in SeriesLens }

\* new Date(), in ms since 00:00:00.000 local time of the current day
Nows == {0, 47130250, 86399999}

\* The few answers: enough to tell two cycles apart and to
\* make each of them succeed or fail at every step
FewAuthBodies ==
  { NoSessionObject,
    Session(Str("tokA"), TRUE, "correct password"),
    Session(Str("tokB"), TRUE, "correct password") }

FewTopPayloads == {Null, AdsMapping, QueriesMapping}

FewSummaryPayloads == {EmptyObject, TypicalSummary, ZeroSummary}

FewStatusPayloads == {Obj([blocking |-> Bool(TRUE)]), Obj([blocking |-> Bool(FALSE)])}

FewSeriesLens == {MaxSmallLen, MaxSmallLen + 2}

FewHistoryPayloads ==
  { EmptyObject }
  \cup { Obj([domains_over_time |-> Arr(DomainsSeries(n)),
              ads_over_time |-> Arr(AdsSeries(m))]) : n \in FewSeriesLens, m \in FewSeriesLens }

FewNows == {47130250}

AuthAnswers == IF scenario.answers = "any" THEN AuthBodies ELSE FewAuthBodies

TopResponses == Responses(TopPayloads)
FewTopResponses == Responses(FewTopPayloads)
TopAnswers == IF scenario.answers = "any" THEN TopResponses ELSE FewTopResponses

SummaryResponses == Responses(SummaryPayloads)
FewSummaryResponses == Responses(FewSummaryPayloads)
SummaryAnswers == IF scenario.answers = "any" THEN SummaryResponses ELSE FewSummaryResponses

StatusResponses == Responses(StatusPayloads)
FewStatusResponses == Responses(FewStatusPayloads)
StatusAnswers == IF scenario.answers = "any" THEN StatusResponses ELSE FewStatusResponses

HistoryResponses == Responses(HistoryPayloads)
FewHistoryResponses == Responses(FewHistoryPayloads)
HistoryAnswers == IF scenario.answers = "any" THEN HistoryResponses ELSE FewHistoryResponses

Clock == IF scenario.clock = "any" THEN Nows ELSE FewNows

-----------------------------------------------------------------------------
(* The checks and conversions of the three fetchData bodies.  The           *)
(* authentication block is the same text in all three components.           *)

\* !authData.session || authData.session.sid === undefined
AuthFailedNever(authData) == FALSE

AuthFailedLoose(authData) ==
  \/ ~Truthy(Get(authData, "session"))
  \/ ~Truthy(Get(Get(authData, "session"), "sid"))

AuthFailedWhenInvalid(authData) ==
  \/ ~Truthy(Get(authData, "session"))
  \/ Get(Get(authData, "session"), "sid") = Undefined
  \/ Get(Get(authData, "session"), "valid") = Bool(FALSE)

AuthFailed(authData) ==
  \/ ~Truthy(Get(authData, "session"))
  \/ Get(Get(authData, "session"), "sid") = Undefined

\* sid = authData.session.sid, then the "no password set" branch, which
\* assigns null to a sid that is null
SessionSid(authData) ==
  LET session == Get(authData, "session")
      s == Get(session, "sid")
  IN IF /\ s = Null
        /\ Truthy(Get(session, "valid"))
        /\ Get(session, "message") = Str("no password set")
     THEN Null
     ELSE s

AuthErrorMessage ==
  IF kind = "PiHoleStats"
  THEN "Authentication failed: no session ID returned"
  ELSE "Authentication failed: no session ID"

ValidationMessage == "Expected data was not returned from Pi-Hole"

\* !res.ok
NotOkNever(res) == FALSE

NotOk(res) == ~res.ok

\* PiHoleTopQueries: the check that throws, and the shape fallback
TopInvalidBlockedOnly(blocked, allowed) ==
  \/ blocked = Null
  \/ Truthy(Get(blocked, "top_sources"))

TopInvalid(blocked, allowed) ==
  \/ blocked = Null
  \/ Truthy(Get(blocked, "top_sources"))
  \/ allowed = Null

TopShapeAsIs(x) == x

TopShape(x) ==
  IF Typeof(x) = "object" /\ ~IsArray(x) THEN x ELSE EmptyObject

EmptyTopData == Obj([top_ads |-> EmptyObject, top_queries |-> EmptyObject])

\* PiHoleStats: the four fields compared with undefined
SummaryInvalidFalsy(summaryJson) ==
  \E f \in SummaryFields : ~Truthy(Get(summaryJson, f))

SummaryInvalid(summaryJson) ==
  \E f \in SummaryFields : Get(summaryJson, f) = Undefined

\* statusJson.blocking !== undefined ? statusJson.blocking : true, then
\* statusEnabled ? 'enabled' : 'disabled'
StatusOfMissingDisabled(statusJson) ==
  IF Truthy(Get(statusJson, "blocking")) THEN Str("enabled") ELSE Str("disabled")

StatusOf(statusJson) ==
  LET blocking == Get(statusJson, "blocking")
      statusEnabled == IF blocking # Undefined THEN blocking ELSE Bool(TRUE)
  IN IF Truthy(statusEnabled) THEN Str("enabled") ELSE Str("disabled")

\* Number.prototype.toFixed(1) of h hundredths (no value here is a tie)
ToFixed1(h) ==
  LET tenths == (h + 5) \div 10
  IN ToString(tenths \div 10) \o "." \o ToString(tenths % 10)

\* summaryJson after status was set and the percentage formatted
Processed(summaryJson, statusJson) ==
  LET withStatus == Put(summaryJson, "status", StatusOf(statusJson))
      pct == Get(withStatus, "ads_percentage_today")
  IN IF pct.t = "number"
     THEN Put(withStatus, "ads_percentage_today", Str(ToFixed1(pct.v)))
     ELSE withStatus

\* PiHoleTraffic
HistoryInvalidWhenEmpty(historyData) ==
  \/ ~Truthy(Get(historyData, "domains_over_time"))
  \/ ~Truthy(Get(historyData, "ads_over_time"))
  \/ Get(historyData, "domains_over_time") = Arr(<<>>)
  \/ Get(historyData, "ads_over_time") = Arr(<<>>)

HistoryInvalid(historyData) ==
  \/ ~Truthy(Get(historyData, "domains_over_time"))
  \/ ~Truthy(Get(historyData, "ads_over_time"))

MathMin(a, b) == IF a < b THEN a ELSE b

MathMax(a, b) == IF a < b THEN b ELSE a

\* Math.min(domainsSeries.length, adsSeries.length)
TotalPointsLonger(domainsSeries, adsSeries) == MathMax(Len(domainsSeries), Len(adsSeries))

TotalPoints(domainsSeries, adsSeries) == MathMin(Len(domainsSeries), Len(adsSeries))

\* Array.prototype.slice(0, n)
Slice(s, n) == SubSeq(s, 1, MathMin(n, Len(s)))

MsPerDay == 24 * 60 * 60 * 1000
MsPerHour == 60 * 60 * 1000
MsPerMinute == 60 * 1000
TenMinutes == 600000

\* startTime, in ms since 00:00:00.000 local time of the current day
StartTimeAtLeastFullDay(totalPoints, now) ==
  IF totalPoints >= FullDay THEN now - MsPerDay ELSE 0

StartTime(totalPoints, now) ==
  IF totalPoints = FullDay THEN now - MsPerDay ELSE 0

\* t.getHours(), t.getMinutes() (a day without a clock change)
GetHours(t) == (t % MsPerDay) \div MsPerHour
GetMinutes(t) == (t % MsPerHour) \div MsPerMinute

LabelHourZero(t) ==
  LET h == GetHours(t)
      minutes == GetMinutes(t)
      ampm == IF h >= 12 THEN "PM" ELSE "AM"
      minuteStr == IF minutes < 10 THEN "0" \o ToString(minutes) ELSE ToString(minutes)
  IN ToString(h % 12) \o ":" \o minuteStr \o " " \o ampm

Label(t) ==
  LET h == GetHours(t)
      minutes == GetMinutes(t)
      ampm == IF h >= 12 THEN "PM" ELSE "AM"
      hours == IF h % 12 = 0 THEN 12 ELSE h % 12
      minuteStr == IF minutes < 10 THEN "0" \o ToString(minutes) ELSE ToString(minutes)
  IN ToString(hours) \o ":" \o minuteStr \o " " \o ampm

\* the label loop: t of point i (0-based) is startTime + i * 600000
TimesOf(totalPoints, now) ==
  [i \in 1..totalPoints |-> StartTime(totalPoints, now) + (i - 1) * TenMinutes]

LabelsOf(totalPoints, now) ==
  LET t == TimesOf(totalPoints, now)
  IN [i \in 1..totalPoints |-> Label(t[i])]

-----------------------------------------------------------------------------
(* State after the component was created *)

\* a Response object, as far as fetchData reads it
Response(ok) == [t |-> "response", ok |-> ok]

\* the bindings of one fetchData activation, before any is assigned
FreshLocals ==
  CASE kind = "PiHoleTopQueries" ->
         [sid |-> Null, authData |-> Undefined,
          blockedRes |-> Undefined, blockedData |-> Undefined,
          allowedRes |-> Undefined, allowedData |-> Undefined]
    [] kind = "PiHoleStats" ->
         [sid |-> Null, authData |-> Undefined,
          summaryRes |-> Undefined, summaryJson |-> Undefined,
          statusRes |-> Undefined, statusJson |-> Undefined]
    [] kind = "PiHoleTraffic" ->
         [sid |-> Null, authData |-> Undefined,
          historyRes |-> Undefined, historyData |-> Undefined, now |-> Undefined,
          t |-> Undefined]

\* data() of the component; PiHoleTraffic has no data field
InitialData ==
  CASE kind = "PiHoleTopQueries" -> EmptyTopData
    [] kind = "PiHoleStats" -> EmptyObject
    [] kind = "PiHoleTraffic" -> Undefined

\* a Chart.js instance; what it draws is left to the rendering layer
Chart(type) == Obj([type |-> Str(type)])

\* the caller runs one refresh cycle at a time (mounted() calls fetchData once;
\* a refresh timer waits for the cycle before it)
Init ==
  /\ kind \in Kinds
  /\ options \in OptionSets(kind)
  /\ serialized = TRUE
  /\ scenario = [answers |-> "any", clock |-> "any"]
  /\ pc = [c \in Cycles |-> "idle"]
  /\ locals = [c \in Cycles |-> FreshLocals]
  /\ err = [c \in Cycles |-> NoError]
  /\ requests = [c \in Cycles |-> <<>>]
  /\ data = InitialData
  /\ labels = <<>>
  /\ queriesData = <<>>
  /\ blockedData = <<>>
  /\ chartInstance = Null

-----------------------------------------------------------------------------
(* The catch blocks: reset, then throw err *)

RejectedStaysSuspended(c, e) ==
  /\ err' = [err EXCEPT ![c] = e]
  /\ UNCHANGED pc

Rejected(c, e) ==
  /\ pc' = [pc EXCEPT ![c] = "rejected"]
  /\ err' = [err EXCEPT ![c] = e]

CatchTopQueries(c, e) ==
  /\ data' = Obj([data.v EXCEPT !.top_ads = EmptyObject, !.top_queries = EmptyObject])
  /\ Rejected(c, e)
  /\ UNCHANGED <<labels, queriesData, blockedData, chartInstance>>

CatchStatsKeepsData(c, e) ==
  /\ Rejected(c, e)
  /\ UNCHANGED <<data, labels, queriesData, blockedData, chartInstance>>

CatchStats(c, e) ==
  /\ data' = EmptyObject
  /\ Rejected(c, e)
  /\ UNCHANGED <<labels, queriesData, blockedData, chartInstance>>

CatchTraffic(c, e) ==
  /\ labels' = <<>>
  /\ queriesData' = <<>>
  /\ blockedData' = <<>>
  /\ Rejected(c, e)
  /\ UNCHANGED <<data, chartInstance>>

CatchUnlessAnotherSucceeded(c, e) ==
  IF \E d \in Cycles : d # c /\ pc[d] = "resolved"
  THEN /\ Rejected(c, e)
       /\ UNCHANGED <<data, labels, queriesData, blockedData, chartInstance>>
  ELSE CASE kind = "PiHoleTopQueries" -> CatchTopQueries(c, e)
         [] kind = "PiHoleStats" -> CatchStats(c, e)
         [] kind = "PiHoleTraffic" -> CatchTraffic(c, e)

Catch(c, e) ==
  CASE kind = "PiHoleTopQueries" -> CatchTopQueries(c, e)
    [] kind = "PiHoleStats" -> CatchStats(c, e)
    [] kind = "PiHoleTraffic" -> CatchTraffic(c, e)

-----------------------------------------------------------------------------
(* The authentication block, up to the first statistics request *)

Issue(c, request) == requests' = [requests EXCEPT ![c] = Append(@, request)]

CanStart(c) ==
  /\ pc[c] = "idle"
  /\ serialized => \A d \in Cycles : pc[d] = "idle"

\* from the call to the first await
BeginAlwaysAuth(c, firstUrl, nextPc) ==
  /\ CanStart(c)
  /\ Issue(c, AuthRequest)
  /\ pc' = [pc EXCEPT ![c] = "await_auth"]
  /\ UNCHANGED <<kind, options, serialized, scenario, locals, err, data, labels,
                 queriesData, blockedData, chartInstance>>

BeginWithoutAwait(c, firstUrl, nextPc) ==
  /\ CanStart(c)
  /\ IF Truthy(password)
     THEN /\ requests' = [requests EXCEPT
                            ![c] = <<AuthRequest, GetRequest(firstUrl, locals[c].sid)>>]
          /\ pc' = [pc EXCEPT ![c] = nextPc]
     ELSE /\ Issue(c, GetRequest(firstUrl, locals[c].sid))
          /\ pc' = [pc EXCEPT ![c] = nextPc]
  /\ UNCHANGED <<kind, options, serialized, scenario, locals, err, data, labels,
                 queriesData, blockedData, chartInstance>>

BeginReusingSession(c, firstUrl, nextPc) ==
  /\ CanStart(c)
  /\ IF \E d \in Cycles : Truthy(locals[d].sid)
     THEN LET sid == locals[CHOOSE d \in Cycles : Truthy(locals[d].sid)].sid
          IN /\ locals' = [locals EXCEPT ![c].sid = sid]
             /\ Issue(c, GetRequest(firstUrl, sid))
             /\ pc' = [pc EXCEPT ![c] = nextPc]
     ELSE /\ UNCHANGED locals
          /\ IF Truthy(password)
             THEN /\ Issue(c, AuthRequest)
                  /\ pc' = [pc EXCEPT ![c] = "await_auth"]
             ELSE /\ Issue(c, GetRequest(firstUrl, locals[c].sid))
                  /\ pc' = [pc EXCEPT ![c] = nextPc]
  /\ UNCHANGED <<kind, options, serialized, scenario, err, data, labels, queriesData,
                 blockedData, chartInstance>>

Begin(c, firstUrl, nextPc) ==
  /\ CanStart(c)
  /\ IF Truthy(password)
     THEN /\ Issue(c, AuthRequest)
          /\ pc' = [pc EXCEPT ![c] = "await_auth"]
     ELSE /\ Issue(c, GetRequest(firstUrl, locals[c].sid))
          /\ pc' = [pc EXCEPT ![c] = nextPc]
  /\ UNCHANGED <<kind, options, serialized, scenario, locals, err, data, labels,
                 queriesData, blockedData, chartInstance>>

\* from the answer to POST /api/auth to the next await
Authenticated(c, firstUrl, nextPc) ==
  /\ pc[c] = "await_auth"
  /\ \E authData \in AuthAnswers :
       IF Nullish(authData)
       THEN /\ locals' = [locals EXCEPT ![c].authData = authData]
            /\ Catch(c, TypeError)
            /\ UNCHANGED requests
       ELSE IF AuthFailed(authData)
       THEN /\ locals' = [locals EXCEPT ![c].authData = authData]
            /\ Catch(c, Error(AuthErrorMessage))
            /\ UNCHANGED requests
       ELSE /\ locals' = [locals EXCEPT ![c].authData = authData,
                                        ![c].sid = SessionSid(authData)]
            /\ Issue(c, GetRequest(firstUrl, SessionSid(authData)))
            /\ pc' = [pc EXCEPT ![c] = nextPc]
            /\ UNCHANGED <<err, data, labels, queriesData, blockedData, chartInstance>>
  /\ UNCHANGED <<kind, options, serialized, scenario>>

-----------------------------------------------------------------------------
(* PiHoleTopQueries.fetchData *)

TopQueries_fetchData(c) ==
  /\ kind = "PiHoleTopQueries"
  /\ Begin(c, blockedUrl, "await_blocked")

TopQueries_authRes(c) ==
  /\ kind = "PiHoleTopQueries"
  /\ Authenticated(c, blockedUrl, "await_blocked")

TopQueries_blockedResEmitting(c) ==
  /\ kind = "PiHoleTopQueries"
  /\ pc[c] = "await_blocked"
  /\ \E res \in TopAnswers :
       IF NotOk(res)
       THEN /\ locals' = [locals EXCEPT ![c].blockedRes = Response(res.ok)]
            /\ Catch(c, Error("Failed to fetch top blocked domains"))
            /\ UNCHANGED requests
       ELSE /\ locals' = [locals EXCEPT ![c].blockedRes = Response(res.ok),
                                        ![c].blockedData = res.body]
            /\ Issue(c, GetRequest(allowedUrl, locals[c].sid))
            /\ pc' = [pc EXCEPT ![c] = "await_allowed"]
            /\ data' = Obj([data.v EXCEPT !.top_ads = TopShape(res.body)])
            /\ UNCHANGED <<err, labels, queriesData, blockedData, chartInstance>>
  /\ UNCHANGED <<kind, options, serialized, scenario>>

TopQueries_blockedRes(c) ==
  /\ kind = "PiHoleTopQueries"
  /\ pc[c] = "await_blocked"
  /\ \E res \in TopAnswers :
       IF NotOk(res)
       THEN /\ locals' = [locals EXCEPT ![c].blockedRes = Response(res.ok)]
            /\ Catch(c, Error("Failed to fetch top blocked domains"))
            /\ UNCHANGED requests
       ELSE /\ locals' = [locals EXCEPT ![c].blockedRes = Response(res.ok),
                                        ![c].blockedData = res.body]
            /\ Issue(c, GetRequest(allowedUrl, locals[c].sid))
            /\ pc' = [pc EXCEPT ![c] = "await_allowed"]
            /\ UNCHANGED <<err, data, labels, queriesData, blockedData, chartInstance>>
  /\ UNCHANGED <<kind, options, serialized, scenario>>

Merged(old, new) ==
  Obj([k \in DOMAIN old.v \cup DOMAIN new.v |->
         IF k \in DOMAIN new.v THEN new.v[k] ELSE old.v[k]])

TopQueries_allowedResMerging(c) ==
  /\ kind = "PiHoleTopQueries"
  /\ pc[c] = "await_allowed"
  /\ \E res \in TopAnswers :
       IF NotOk(res)
       THEN /\ locals' = [locals EXCEPT ![c].allowedRes = Response(res.ok)]
            /\ Catch(c, Error("Failed to fetch top allowed domains"))
       ELSE /\ locals' = [locals EXCEPT ![c].allowedRes = Response(res.ok),
                                        ![c].allowedData = res.body]
            /\ IF TopInvalid(locals[c].blockedData, res.body)
               THEN Catch(c, Error(ValidationMessage))
               ELSE /\ data' = Obj([data.v EXCEPT
                                      !.top_ads = Merged(@, TopShape(locals[c].blockedData)),
                                      !.top_queries = Merged(@, TopShape(res.body))])
                    /\ pc' = [pc EXCEPT ![c] = "resolved"]
                    /\ UNCHANGED <<err, labels, queriesData, blockedData, chartInstance>>
  /\ UNCHANGED <<kind, options, serialized, scenario, requests>>

TopQueries_allowedRes(c) ==
  /\ kind = "PiHoleTopQueries"
  /\ pc[c] = "await_allowed"
  /\ \E res \in TopAnswers :
       IF NotOk(res)
       THEN /\ locals' = [locals EXCEPT ![c].allowedRes = Response(res.ok)]
            /\ Catch(c, Error("Failed to fetch top allowed domains"))
       ELSE /\ locals' = [locals EXCEPT ![c].allowedRes = Response(res.ok),
                                        ![c].allowedData = res.body]
            /\ IF TopInvalid(locals[c].blockedData, res.body)
               THEN Catch(c, Error(ValidationMessage))
               ELSE /\ data' = Obj([data.v EXCEPT
                                      !.top_ads = TopShape(locals[c].blockedData),
                                      !.top_queries = TopShape(res.body)])
                    /\ pc' = [pc EXCEPT ![c] = "resolved"]
                    /\ UNCHANGED <<err, labels, queriesData, blockedData, chartInstance>>
  /\ UNCHANGED <<kind, options, serialized, scenario, requests>>

-----------------------------------------------------------------------------
(* PiHoleStats.fetchData *)

Stats_fetchData(c) ==
  /\ kind = "PiHoleStats"
  /\ Begin(c, summaryUrl, "await_summary")

Stats_authRes(c) ==
  /\ kind = "PiHoleStats"
  /\ Authenticated(c, summaryUrl, "await_summary")

Stats_summaryResValidating(c) ==
  /\ kind = "PiHoleStats"
  /\ pc[c] = "await_summary"
  /\ \E res \in SummaryAnswers :
       IF NotOk(res)
       THEN /\ locals' = [locals EXCEPT ![c].summaryRes = Response(res.ok)]
            /\ Catch(c, Error("Failed to fetch summary data"))
            /\ UNCHANGED requests
       ELSE IF ~Nullish(res.body) /\ SummaryInvalid(res.body)
       THEN /\ locals' = [locals EXCEPT ![c].summaryRes = Response(res.ok),
                                        ![c].summaryJson = res.body]
            /\ Catch(c, Error(ValidationMessage))
            /\ UNCHANGED requests
       ELSE /\ locals' = [locals EXCEPT ![c].summaryRes = Response(res.ok),
                                        ![c].summaryJson = res.body]
            /\ Issue(c, GetRequest(statusUrl, locals[c].sid))
            /\ pc' = [pc EXCEPT ![c] = "await_status"]
            /\ UNCHANGED <<err, data, labels, queriesData, blockedData, chartInstance>>
  /\ UNCHANGED <<kind, options, serialized, scenario>>

Stats_summaryRes(c) ==
  /\ kind = "PiHoleStats"
  /\ pc[c] = "await_summary"
  /\ \E res \in SummaryAnswers :
       IF NotOk(res)
       THEN /\ locals' = [locals EXCEPT ![c].summaryRes = Response(res.ok)]
            /\ Catch(c, Error("Failed to fetch summary data"))
            /\ UNCHANGED requests
       ELSE /\ locals' = [locals EXCEPT ![c].summaryRes = Response(res.ok),
                                        ![c].summaryJson = res.body]
            /\ Issue(c, GetRequest(statusUrl, locals[c].sid))
            /\ pc' = [pc EXCEPT ![c] = "await_status"]
            /\ UNCHANGED <<err, data, labels, queriesData, blockedData, chartInstance>>
  /\ UNCHANGED <<kind, options, serialized, scenario>>

\* updateChart(): the chart is created on the first call, updated afterwards
Stats_updateChart ==
  chartInstance' = IF chartInstance # Null THEN chartInstance ELSE Chart("doughnut")

Stats_statusRes(c) ==
  /\ kind = "PiHoleStats"
  /\ pc[c] = "await_status"
  /\ \E res \in StatusAnswers :
       LET summaryJson == locals[c].summaryJson
           got == [locals EXCEPT ![c].statusRes = Response(res.ok),
                                 ![c].statusJson = res.body]
       IN IF NotOk(res)
          THEN /\ locals' = [locals EXCEPT ![c].statusRes = Response(res.ok)]
               /\ Catch(c, Error("Failed to fetch status"))
          ELSE IF Nullish(summaryJson)
          THEN /\ locals' = got
               /\ Catch(c, TypeError)
          ELSE IF SummaryInvalid(summaryJson)
          THEN /\ locals' = got
               /\ Catch(c, Error(ValidationMessage))
          ELSE IF Nullish(res.body)
          THEN /\ locals' = got
               /\ Catch(c, TypeError)
          ELSE \* summaryJson is changed in place and becomes this.data
               /\ locals' = [got EXCEPT ![c].summaryJson = Processed(summaryJson, res.body)]
               /\ data' = Processed(summaryJson, res.body)
               /\ IF options.hideChart
                  THEN UNCHANGED chartInstance
                  ELSE Stats_updateChart
               /\ pc' = [pc EXCEPT ![c] = "resolved"]
               /\ UNCHANGED <<err, labels, queriesData, blockedData>>
  /\ UNCHANGED <<kind, options, serialized, scenario, requests>>

-----------------------------------------------------------------------------
(* PiHoleTraffic.fetchData *)

Traffic_fetchData(c) ==
  /\ kind = "PiHoleTraffic"
  /\ Begin(c, historyUrl, "await_history")

Traffic_authRes(c) ==
  /\ kind = "PiHoleTraffic"
  /\ Authenticated(c, historyUrl, "await_history")

Traffic_updateChart ==
  chartInstance' = IF chartInstance # Null THEN chartInstance ELSE Chart("line")

Traffic_historyRes(c) ==
  /\ kind = "PiHoleTraffic"
  /\ pc[c] = "await_history"
  /\ \E res \in HistoryAnswers, now \in Clock :
       LET got == [locals EXCEPT ![c].historyRes = Response(res.ok),
                                 ![c].historyData = res.body]
           domainsSeries == Get(res.body, "domains_over_time")
           adsSeries == Get(res.body, "ads_over_time")
       IN IF NotOk(res)
          THEN /\ locals' = [locals EXCEPT ![c].historyRes = Response(res.ok)]
               /\ Catch(c, Error("Failed to fetch history data"))
          ELSE IF Nullish(res.body)
          THEN /\ locals' = got
               /\ Catch(c, TypeError)
          ELSE IF HistoryInvalid(res.body)
          THEN /\ locals' = got
               /\ Catch(c, Error(ValidationMessage))
          ELSE IF ~IsArray(domainsSeries) \/ ~IsArray(adsSeries)
          THEN \* a number has no slice(): TypeError after labels was cleared
               /\ locals' = [got EXCEPT ![c].now = Num(now)]
               /\ Catch(c, TypeError)
          ELSE LET totalPoints == TotalPoints(domainsSeries.v, adsSeries.v)
               IN /\ locals' = [got EXCEPT ![c].now = Num(now),
                                              ![c].t = Arr(TimesOf(totalPoints, now))]
                  /\ labels' = LabelsOf(totalPoints, now)
                  /\ queriesData' = Slice(domainsSeries.v, totalPoints)
                  /\ blockedData' = Slice(adsSeries.v, totalPoints)
                  /\ Traffic_updateChart
                  /\ pc' = [pc EXCEPT ![c] = "resolved"]
                  /\ UNCHANGED <<err, data>>
  /\ UNCHANGED <<kind, options, serialized, scenario, requests>>

-----------------------------------------------------------------------------
(* The transport and the caller *)

Awaiting ==
  {"await_auth", "await_blocked", "await_allowed", "await_summary", "await_status",
   "await_history"}

\* an awaited fetch() or .json() promise rejects (no connection, no JSON)
FetchRejected(c) ==
  /\ pc[c] \in Awaiting
  /\ Catch(c, NetworkError)
  /\ UNCHANGED <<kind, options, serialized, scenario, locals, requests>>

\* mounted(): this.fetchData().catch(err => {}); the activation is over
Settle(c) ==
  /\ pc[c] \in {"resolved", "rejected"}
  /\ pc' = [pc EXCEPT ![c] = "idle"]
  /\ locals' = [locals EXCEPT ![c] = FreshLocals]
  /\ err' = [err EXCEPT ![c] = NoError]
  /\ requests' = [requests EXCEPT ![c] = <<>>]
  /\ UNCHANGED <<kind, options, serialized, scenario, data, labels, queriesData, blockedData,
                 chartInstance>>

Next ==
  \E c \in Cycles :
    \/ TopQueries_fetchData(c)
    \/ TopQueries_authRes(c)
    \/ TopQueries_blockedRes(c)
    \/ TopQueries_allowedRes(c)
    \/ Stats_fetchData(c)
    \/ Stats_authRes(c)
    \/ Stats_summaryRes(c)
    \/ Stats_statusRes(c)
    \/ Traffic_fetchData(c)
    \/ Traffic_authRes(c)
    \/ Traffic_historyRes(c)
    \/ FetchRejected(c)
    \/ Settle(c)

Spec == Init /\ [][Next]_vars

\* every awaited fetch() or .json() promise of a cycle is eventually
\* fulfilled or rejected
Respond(c) ==
  \/ TopQueries_authRes(c)
  \/ TopQueries_blockedRes(c)
  \/ TopQueries_allowedRes(c)
  \/ Stats_authRes(c)
  \/ Stats_summaryRes(c)
  \/ Stats_statusRes(c)
  \/ Traffic_authRes(c)
  \/ Traffic_historyRes(c)
  \/ FetchRejected(c)

\* The caller starts cycles while others are alive (a parent refresh while
\* the mounted() fetch is pending), with the few answers
OverlapOptionSets(k) ==
  { o \in OptionSets(k) :
      /\ o.apiKey \in {Undefined, Str("s3cr3t")}
      /\ o.count = Undefined
      /\ o.hideChart = FALSE }

InitOverlap ==
  /\ kind \in Kinds
  /\ options \in OverlapOptionSets(kind)
  /\ serialized = FALSE
  /\ scenario = [answers |-> "few", clock |-> "few"]
  /\ pc = [c \in Cycles |-> "idle"]
  /\ locals = [c \in Cycles |-> FreshLocals]
  /\ err = [c \in Cycles |-> NoError]
  /\ requests = [c \in Cycles |-> <<>>]
  /\ data = InitialData
  /\ labels = <<>>
  /\ queriesData = <<>>
  /\ blockedData = <<>>
  /\ chartInstance = Null

SpecOverlap == InitOverlap /\ [][Next]_vars

\* count only changes the text of two URLs and the clock only the labels:
\* count is left at its default and the clock has one reading here
InitFair ==
  /\ kind \in Kinds
  /\ options \in {o \in OptionSets(kind) : o.count = Undefined}
  /\ serialized = TRUE
  /\ scenario = [answers |-> "any", clock |-> "few"]
  /\ pc = [c \in Cycles |-> "idle"]
  /\ locals = [c \in Cycles |-> FreshLocals]
  /\ err = [c \in Cycles |-> NoError]
  /\ requests = [c \in Cycles |-> <<>>]
  /\ data = InitialData
  /\ labels = <<>>
  /\ queriesData = <<>>
  /\ blockedData = <<>>
  /\ chartInstance = Null

SpecFair == InitFair /\ [][Next]_vars /\ \A c \in Cycles : WF_vars(Respond(c))

-----------------------------------------------------------------------------
(* The body of the label loop on its own: one timestamp in, one label out.
   The timestamps cover every hour and minute of the day before, the
   current day and the day after, at the first and the last millisecond
   of the minute. *)

LabelDays == {-1, 0, 1}
LabelHours == 0..23
LabelMinutes == 0..59
LabelMillis == {0, MsPerMinute - 1}

LabelTimes ==
  {d * MsPerDay + h * MsPerHour + m * MsPerMinute + ms :
     d \in LabelDays, h \in LabelHours, m \in LabelMinutes, ms \in LabelMillis}

InitLabel == Init /\ kind = "PiHoleTraffic"

Traffic_label(c) ==
  /\ kind = "PiHoleTraffic"
  /\ \A d \in Cycles : locals[d].t = Undefined
  /\ \E t \in LabelTimes :
       /\ locals' = [d \in Cycles |->
                       IF d = c THEN [FreshLocals EXCEPT !.t = Arr(<<t>>)]
                       ELSE FreshLocals]
       /\ labels' = <<Label(t)>>
  /\ UNCHANGED <<kind, options, serialized, scenario, pc, err, requests, data, queriesData,
                 blockedData, chartInstance>>

NextLabel == \E c \in Cycles : Traffic_label(c)

SpecLabel == InitLabel /\ [][NextLabel]_vars

-----------------------------------------------------------------------------
(* What the claims speak of *)

Gets(c) == {i \in DOMAIN requests[c] : requests[c][i].method = "GET"}
Posts(c) == {i \in DOMAIN requests[c] : requests[c][i].method = "POST"}

NoSidHeader(c) == \A i \in Gets(c) : "sid" \notin DOMAIN requests[c][i].headers

Ended(c) == pc[c] \in {"resolved", "rejected"}

\* the widget's data is what the component was created with
DataIsEmptyDefault ==
  CASE kind = "PiHoleTopQueries" -> data = Obj([top_ads |-> EmptyObject,
                                                top_queries |-> EmptyObject])
    [] kind = "PiHoleStats" -> data = Obj(<<>>)
    [] kind = "PiHoleTraffic" -> labels = <<>> /\ queriesData = <<>> /\ blockedData = <<>>

\* an object in which key k is present
Has(x, k) == x.t = "object" /\ k \in DOMAIN x.v

\* the authentication response was received and carries session.sid
AuthAccepted(c) ==
  /\ Has(locals[c].authData, "session")
  /\ Has(locals[c].authData.v.session, "sid")

\* the authentication response is an object without a session object or
\* with a session object without sid
AuthLacksSid(c) ==
  /\ locals[c].authData.t = "object"
  /\ ~AuthAccepted(c)

\* C1: when a cycle has failed, at whatever stage, the widget's data is its
\* empty default at the moment the error is re-thrown.
C1_FailureResetsData ==
  \A c \in Cycles : pc[c] = "rejected" => DataIsEmptyDefault

\* a cycle failed validation after an earlier cycle had emitted data (the
\* chart exists), and the data is empty
C1_Witness ==
  \E c \in Cycles :
    /\ pc[c] = "rejected"
    /\ err[c] = Error(ValidationMessage)
    /\ chartInstance # Null
    /\ DataIsEmptyDefault

\* C2: a statistics GET is only issued after the POST of the same cycle was
\* answered and accepted, or with no POST at all when the secret is empty;
\* a cycle that failed authentication has issued no GET.
C2_AuthBeforeStats ==
  \A c \in Cycles :
    /\ \A i \in Gets(c) :
         IF password = Str("")
         THEN Posts(c) = {}
         ELSE Posts(c) = {1} /\ i > 1 /\ AuthAccepted(c)
    /\ (pc[c] = "rejected" /\ err[c] = Error(AuthErrorMessage)) => Gets(c) = {}

\* a cycle with a secret that authenticated and then issued both its GETs
C2_Witness ==
  \E c \in Cycles :
    /\ password # Str("")
    /\ Posts(c) = {1}
    /\ Gets(c) = {2, 3}
    /\ AuthAccepted(c)

\* C3: with an empty or missing secret a cycle issues no POST, its sid is
\* null and none of its GETs carries a sid header.
C3_EmptySecretSkipsAuth ==
  \A c \in Cycles :
    (options.apiKey \in {Undefined, Str("")} /\ pc[c] # "idle") =>
      /\ Posts(c) = {}
      /\ Gets(c) # {}
      /\ locals[c].sid = Null
      /\ NoSidHeader(c)

\* a cycle without a configured secret that ran to its end with two GETs
C3_Witness ==
  \E c \in Cycles :
    /\ options.apiKey = Undefined
    /\ pc[c] = "resolved"
    /\ Gets(c) = {1, 2}
    /\ NoSidHeader(c)

\* C4: an authentication response without a session object, or whose session
\* has no sid field, fails the cycle with the authentication error, with no
\* GET issued and the data at its empty default.
C4_MissingSidFails ==
  \A c \in Cycles :
    AuthLacksSid(c) =>
      /\ pc[c] = "rejected"
      /\ err[c] = Error(AuthErrorMessage)
      /\ Gets(c) = {}
      /\ DataIsEmptyDefault

\* a cycle rejected on a session object that has no sid field
C4_Witness ==
  \E c \in Cycles :
    /\ locals[c].authData = SessionWithoutSid
    /\ pc[c] = "rejected"
    /\ err[c] = Error(AuthErrorMessage)

\* C5: the answer {session: {sid: null, valid: true, message: "no password
\* set"}} is accepted with sid null: no authentication error, the first GET
\* follows the POST, and no GET carries a sid header.
C5_NoPasswordSetAccepted ==
  \A c \in Cycles :
    locals[c].authData = NoPasswordSet =>
      /\ err[c] # Error(AuthErrorMessage)
      /\ locals[c].sid = Null
      /\ 2 \in Gets(c)
      /\ NoSidHeader(c)

\* a cycle that got the "no password set" answer and emitted its data
C5_Witness ==
  \E c \in Cycles :
    /\ locals[c].authData = NoPasswordSet
    /\ pc[c] = "resolved"
    /\ Len(requests[c]) = 3


\* the Response bindings of a cycle, each with the url it was fetched from
ResUrls ==
  CASE kind = "PiHoleTopQueries" ->
         [blockedRes |-> "/api/stats/top_domains?blocked=true&count=" \o ToString(count),
          allowedRes |-> "/api/stats/top_domains?blocked=false&count=" \o ToString(count)]
    [] kind = "PiHoleStats" ->
         [summaryRes |-> "/api/stats/summary", statusRes |-> "/api/dns/blocking"]
    [] kind = "PiHoleTraffic" ->
         [historyRes |-> "/api/history"]

FetchFailure ==
  [blockedRes |-> "Failed to fetch top blocked domains",
   allowedRes |-> "Failed to fetch top allowed domains",
   summaryRes |-> "Failed to fetch summary data",
   statusRes |-> "Failed to fetch status",
   historyRes |-> "Failed to fetch history data"]

\* C6: a statistics GET answered with a non-success status ends the cycle at
\* once: the cycle is rejected with that endpoint's fetch error, the failed
\* GET is its last request, and no url is requested twice in a cycle.
C6_FailedFetchEndsCycle ==
  \A c \in Cycles :
    /\ \A f \in DOMAIN ResUrls :
         (locals[c][f].t = "response" /\ ~locals[c][f].ok) =>
           /\ pc[c] = "rejected"
           /\ err[c] = Error(FetchFailure[f])
           /\ requests[c][Len(requests[c])].url = ResUrls[f]
    /\ \A i, j \in DOMAIN requests[c] :
         requests[c][i].url = requests[c][j].url => i = j

\* the blocked top-domains call came back non-success; the allowed call was
\* never made
C6_Witness ==
  \E c \in Cycles :
    /\ kind = "PiHoleTopQueries"
    /\ locals[c].blockedRes.t = "response"
    /\ ~locals[c].blockedRes.ok
    /\ pc[c] = "rejected"
    /\ locals[c].allowedRes = Undefined

\* a summary payload that is an object lacking one of the four fields
SummaryLacksField(x) ==
  /\ x.t = "object"
  /\ \E f \in {"domains_being_blocked", "dns_queries_today", "ads_blocked_today",
               "ads_percentage_today"} : f \notin DOMAIN x.v

SummaryHasAllFields(x) ==
  /\ x.t = "object"
  /\ {"domains_being_blocked", "dns_queries_today", "ads_blocked_today",
      "ads_percentage_today"} \subseteq DOMAIN x.v

\* C7 as stated: in PiHoleStats every summary response lacking one of the
\* four fields makes the cycle fail with the validation error, the data
\* being empty; a field that is present, also with value 0, never does.
C7_Original ==
  \A c \in Cycles :
    (kind = "PiHoleStats" /\ Ended(c)) =>
      /\ SummaryLacksField(locals[c].summaryJson) =>
           /\ pc[c] = "rejected"
           /\ err[c] = Error(ValidationMessage)
           /\ data = Obj(<<>>)
      /\ SummaryHasAllFields(locals[c].summaryJson) =>
           err[c] # Error(ValidationMessage)

\* C7 amended: such a summary response always makes the cycle fail with the
\* data empty; the error is the validation error when the blocking-status
\* call returned success, and the fetch error of that call when it did not.
C7_MissingFieldFails ==
  \A c \in Cycles :
    (kind = "PiHoleStats" /\ Ended(c)) =>
      /\ SummaryLacksField(locals[c].summaryJson) =>
           /\ pc[c] = "rejected"
           /\ data = Obj(<<>>)
           /\ locals[c].statusRes = Response(TRUE) => err[c] = Error(ValidationMessage)
           /\ locals[c].statusRes = Response(FALSE) => err[c] = Error("Failed to fetch status")
      /\ SummaryHasAllFields(locals[c].summaryJson) =>
           err[c] # Error(ValidationMessage)

\* a summary without ads_percentage_today, the status call answered with
\* success, and the cycle rejected with the validation error
C7_Witness ==
  \E c \in Cycles :
    /\ kind = "PiHoleStats"
    /\ locals[c].summaryJson.t = "object"
    /\ DOMAIN locals[c].summaryJson.v =
         {"domains_being_blocked", "dns_queries_today", "ads_blocked_today"}
    /\ locals[c].statusRes = Response(TRUE)
    /\ pc[c] = "rejected"
    /\ err[c] = Error(ValidationMessage)
    /\ data = Obj(<<>>)

\* a payload of another shape than a non-null, non-array object
OtherShape(x) == x.t \in {"null", "array", "number", "string", "boolean"}

\* a mapping the component takes as it is
PlainMapping(x) == x.t = "object" /\ "top_sources" \notin DOMAIN x.v

BothFetched(c) ==
  /\ locals[c].blockedRes = Response(TRUE)
  /\ locals[c].allowedRes = Response(TRUE)

\* C8 as stated: in PiHoleTopQueries a fetched payload of another shape
\* (array, null, number, string, boolean) never fails the cycle and is
\* emitted as the empty mapping.  The other payload is a plain mapping here.
C8_Original ==
  \A c \in Cycles :
    (kind = "PiHoleTopQueries" /\ BothFetched(c)) =>
      /\ (OtherShape(locals[c].blockedData) /\ PlainMapping(locals[c].allowedData)) =>
           pc[c] = "resolved" /\ data.v.top_ads = Obj(<<>>)
      /\ (OtherShape(locals[c].allowedData) /\ PlainMapping(locals[c].blockedData)) =>
           pc[c] = "resolved" /\ data.v.top_queries = Obj(<<>>)

\* C8 amended: with both fetches successful the cycle fails, with the
\* validation error and both mappings empty, exactly when a payload is null
\* or the blocked payload has a truthy top_sources; otherwise an array,
\* number, string or boolean is emitted as the empty mapping and an object
\* as itself.
C8_ShapeFallback ==
  \A c \in Cycles :
    (kind = "PiHoleTopQueries" /\ BothFetched(c)) =>
      LET blocked == locals[c].blockedData
          allowed == locals[c].allowedData
          fails == \/ blocked.t = "null"
                   \/ allowed.t = "null"
                   \/ Has(blocked, "top_sources") /\ Truthy(blocked.v.top_sources)
          Emitted(x) == IF x.t = "object" THEN x ELSE Obj(<<>>)
      IN IF fails
         THEN /\ pc[c] = "rejected"
              /\ err[c] = Error(ValidationMessage)
              /\ DataIsEmptyDefault
         ELSE /\ pc[c] = "resolved"
              /\ data.v.top_ads = Emitted(blocked)
              /\ data.v.top_queries = Emitted(allowed)

\* the blocked payload was an array, the allowed one a mapping: the cycle
\* emitted the empty mapping and the allowed mapping
C8_Witness ==
  \E c \in Cycles :
    /\ kind = "PiHoleTopQueries"
    /\ BothFetched(c)
    /\ locals[c].blockedData.t = "array"
    /\ locals[c].allowedData = QueriesMapping
    /\ pc[c] = "resolved"
    /\ data.v.top_ads = Obj(<<>>)
    /\ data.v.top_queries = QueriesMapping

\* C9: in PiHoleStats, with all four summary fields and both fetches
\* successful, the cycle emits status "disabled" for blocking = false,
\* "enabled" for blocking = true and "enabled" for a missing blocking field.
C9_StatusField ==
  \A c \in Cycles :
    ( /\ kind = "PiHoleStats"
      /\ locals[c].statusRes = Response(TRUE)
      /\ SummaryHasAllFields(locals[c].summaryJson)
      /\ locals[c].statusJson.t = "object" ) =>
        LET statusJson == locals[c].statusJson.v
            status == IF "blocking" \notin DOMAIN statusJson THEN "enabled"
                      ELSE IF statusJson.blocking = Bool(FALSE) THEN "disabled"
                      ELSE IF statusJson.blocking = Bool(TRUE) THEN "enabled"
                      ELSE "unspecified"
        IN /\ pc[c] = "resolved"
           /\ status # "unspecified" => Get(data, "status") = Str(status)

\* the blocking field was missing and the cycle emitted status "enabled"
C9_Witness ==
  \E c \in Cycles :
    /\ kind = "PiHoleStats"
    /\ pc[c] = "resolved"
    /\ locals[c].statusJson = Obj(<<>>)
    /\ Get(data, "status") = Str("enabled")

\* the history payload carries both series as arrays
BothSeries(x) ==
  /\ Has(x, "domains_over_time") /\ x.v.domains_over_time.t = "array"
  /\ Has(x, "ads_over_time") /\ x.v.ads_over_time.t = "array"

\* C10: in PiHoleTraffic, for two series of any lengths, labels, total and
\* blocked series all have min(len(total), len(blocked)) entries, each series
\* being the prefix of its input, and the cycle does not fail.
C10_Truncation ==
  \A c \in Cycles :
    ( /\ kind = "PiHoleTraffic"
      /\ locals[c].historyRes = Response(TRUE)
      /\ BothSeries(locals[c].historyData) ) =>
        LET total == locals[c].historyData.v.domains_over_time.v
            blocked == locals[c].historyData.v.ads_over_time.v
            n == IF Len(total) <= Len(blocked) THEN Len(total) ELSE Len(blocked)
        IN /\ pc[c] = "resolved"
           /\ Len(labels) = n
           /\ queriesData = [i \in 1..n |-> total[i]]
           /\ blockedData = [i \in 1..n |-> blocked[i]]

\* series of 50 and 80 samples gave 50 points
C10_Witness ==
  \E c \in Cycles :
    /\ kind = "PiHoleTraffic"
    /\ pc[c] = "resolved"
    /\ BothSeries(locals[c].historyData)
    /\ Len(locals[c].historyData.v.domains_over_time.v) = 50
    /\ Len(locals[c].historyData.v.ads_over_time.v) = 80
    /\ Len(labels) = 50
    /\ Len(queriesData) = 50
    /\ Len(blockedData) = 50


\* C11: in PiHoleTraffic the timestamp of point i (0-based) is start + i * 10
\* minutes, with start = now - 24 h when min(len(total), len(blocked)) is
\* exactly 144 and start = 00:00:00 of the current day for any other length.
C11_Timestamps ==
  \A c \in Cycles :
    (kind = "PiHoleTraffic" /\ pc[c] = "resolved") =>
      LET total == locals[c].historyData.v.domains_over_time.v
          blocked == locals[c].historyData.v.ads_over_time.v
          n == IF Len(total) <= Len(blocked) THEN Len(total) ELSE Len(blocked)
          start == IF n = 144 THEN locals[c].now.v - 86400000 ELSE 0
          t == locals[c].t.v
      IN /\ Len(t) = n
         /\ Len(labels) = n
         /\ \A i \in 1..n : t[i] = start + (i - 1) * 600000

\* series of 144 and 145 samples: 144 points, the first at now - 24 h and
\* the second ten minutes later
C11_Witness ==
  \E c \in Cycles :
    /\ kind = "PiHoleTraffic"
    /\ pc[c] = "resolved"
    /\ Len(locals[c].historyData.v.domains_over_time.v) = 144
    /\ Len(locals[c].historyData.v.ads_over_time.v) = 145
    /\ locals[c].now = Num(47130250)
    /\ Len(labels) = 144
    /\ locals[c].t.v[1] = 47130250 - 86400000
    /\ locals[c].t.v[2] = 47130250 - 86400000 + 600000


\* C12: for every timestamp with hour h in 0..23 and minute m in 0..59 the
\* label is "<H>:<MM> <S>": H is 12 when h mod 12 = 0 and h mod 12 otherwise,
\* never 0 and never zero-padded; MM is the minute on two digits; S is AM for
\* h < 12 and PM for h >= 12.  00:00 is "12:00 AM", 12:00 is "12:00 PM",
\* 13:05 is "1:05 PM" and 17:55 is "5:55 PM".
C12_SinceMidnight(t) ==
  LET d == CHOOSE d \in -1..1 : d * 86400000 <= t /\ t < (d + 1) * 86400000
  IN t - d * 86400000

C12_HourOf(t) == C12_SinceMidnight(t) \div 3600000

C12_MinuteOf(t) == (C12_SinceMidnight(t) - C12_HourOf(t) * 3600000) \div 60000

C12_Expected(h, m) ==
  LET H == IF h \in {0, 12} THEN "12"
           ELSE IF h < 12 THEN ToString(h) ELSE ToString(h - 12)
      MM == IF m \in 0..9 THEN "0" \o ToString(m) ELSE ToString(m)
      S == IF h < 12 THEN "AM" ELSE "PM"
  IN H \o ":" \o MM \o " " \o S

C12_Examples(t, label) ==
  LET h == C12_HourOf(t)
      m == C12_MinuteOf(t)
  IN /\ (h = 0 /\ m = 0) => label = "12:00 AM"
     /\ (h = 12 /\ m = 0) => label = "12:00 PM"
     /\ (h = 13 /\ m = 5) => label = "1:05 PM"
     /\ (h = 17 /\ m = 55) => label = "5:55 PM"

C12_LabelFormat ==
  \A c \in Cycles :
    (kind = "PiHoleTraffic" /\ locals[c].t.t = "array") =>
      LET t == locals[c].t.v
      IN /\ Len(labels) = Len(t)
         /\ \A i \in 1..Len(t) :
              /\ labels[i] = C12_Expected(C12_HourOf(t[i]), C12_MinuteOf(t[i]))
              /\ C12_Examples(t[i], labels[i])

\* 13:05:59.999 of the day before is labelled "1:05 PM"
C12_Witness ==
  \E c \in Cycles :
    /\ kind = "PiHoleTraffic"
    /\ locals[c].t = Arr(<<13 * 3600000 + 5 * 60000 + 59999 - 86400000>>)
    /\ labels = <<"1:05 PM">>


\* C13: in PiHoleTraffic a fetched history response without domains_over_time
\* or without ads_over_time fails the cycle with the validation error and
\* leaves labels, total series and blocked series empty; a response with both
\* arrays, empty arrays included, does not fail validation.
C13_HistoryValidation ==
  \A c \in Cycles :
    ( /\ kind = "PiHoleTraffic"
      /\ locals[c].historyRes = Response(TRUE)
      /\ locals[c].historyData.t = "object" ) =>
        LET historyData == locals[c].historyData
            lacks == \/ "domains_over_time" \notin DOMAIN historyData.v
                     \/ "ads_over_time" \notin DOMAIN historyData.v
        IN /\ lacks => /\ pc[c] = "rejected"
                       /\ err[c] = Error("Expected data was not returned from Pi-Hole")
                       /\ labels = <<>>
                       /\ queriesData = <<>>
                       /\ blockedData = <<>>
           /\ BothSeries(historyData) => /\ pc[c] = "resolved"
                                         /\ err[c] = NoError

\* the response had the total series only
C13_Witness ==
  \E c \in Cycles :
    /\ kind = "PiHoleTraffic"
    /\ locals[c].historyRes = Response(TRUE)
    /\ locals[c].historyData.t = "object"
    /\ DOMAIN locals[c].historyData.v = {"domains_over_time"}
    /\ pc[c] = "rejected"
    /\ err[c] = Error("Expected data was not returned from Pi-Hole")
    /\ labels = <<>>


\* what fails the cycle on the account of one payload alone, and what is
\* emitted for one payload alone
C15_BlockedFails(blocked) ==
  \/ blocked.t = "null"
  \/ Has(blocked, "top_sources") /\ Truthy(blocked.v.top_sources)

C15_AllowedFails(allowed) == allowed.t = "null"

C15_EmittedAlone(x, fails) ==
  IF ~fails /\ x.t = "object" THEN x ELSE Obj(<<>>)

\* C15 as stated: in PiHoleTopQueries, with both fetches successful, the
\* emitted blocked mapping is decided by the blocked payload alone (the
\* payload itself, or the empty mapping when it has another shape or fails
\* the cycle) and the emitted allowed mapping by the allowed payload alone.
C15_Original ==
  \A c \in Cycles :
    (kind = "PiHoleTopQueries" /\ BothFetched(c)) =>
      LET blocked == locals[c].blockedData
          allowed == locals[c].allowedData
      IN /\ data.v.top_ads = C15_EmittedAlone(blocked, C15_BlockedFails(blocked))
         /\ data.v.top_queries = C15_EmittedAlone(allowed, C15_AllowedFails(allowed))

\* C15 amended: with both fetches successful the two payloads are validated
\* in one test: the cycle fails exactly when one of them fails it, and then
\* both mappings are emitted empty whatever the other payload was; when the
\* cycle does not fail, each emitted mapping is decided by its own payload.
C15_JointValidation ==
  \A c \in Cycles :
    (kind = "PiHoleTopQueries" /\ BothFetched(c)) =>
      LET blocked == locals[c].blockedData
          allowed == locals[c].allowedData
          fails == C15_BlockedFails(blocked) \/ C15_AllowedFails(allowed)
      IN /\ pc[c] \in {"resolved", "rejected"}
         /\ pc[c] = "rejected" <=> fails
         /\ pc[c] = "rejected" =>
              data.v.top_ads = Obj(<<>>) /\ data.v.top_queries = Obj(<<>>)
         /\ pc[c] = "resolved" =>
              /\ data.v.top_ads = C15_EmittedAlone(blocked, FALSE)
              /\ data.v.top_queries = C15_EmittedAlone(allowed, FALSE)

\* a null allowed payload emptied the blocked mapping of a cycle whose
\* blocked payload was a plain mapping
C15_Witness ==
  \E c \in Cycles :
    /\ kind = "PiHoleTopQueries"
    /\ BothFetched(c)
    /\ locals[c].blockedData = AdsMapping
    /\ locals[c].allowedData = Null
    /\ pc[c] = "rejected"
    /\ data.v.top_ads = Obj(<<>>)


\* C16: when every issued request eventually receives a response, every
\* started cycle ends, either with its data emitted or with its failure
\* re-raised, after at most one POST and two GETs (one GET in PiHoleTraffic);
\* no cycle stays suspended forever.
C16_RequestBound ==
  \A c \in Cycles :
    /\ Cardinality(Posts(c)) <= 1
    /\ Cardinality(Gets(c)) <= (IF kind = "PiHoleTraffic" THEN 1 ELSE 2)
    /\ Len(requests[c]) = Cardinality(Posts(c)) + Cardinality(Gets(c))
    /\ pc[c] = "resolved" => err[c] = NoError
    /\ pc[c] = "rejected" => err[c] # NoError

C16_Terminates ==
  /\ []C16_RequestBound
  /\ \A c \in Cycles : (pc[c] \in Awaiting) ~> (pc[c] \in {"resolved", "rejected"})

\* a cycle ended after one POST and two GETs
C16_Witness ==
  \E c \in Cycles :
    /\ pc[c] \in {"resolved", "rejected"}
    /\ Cardinality(Posts(c)) = 1
    /\ Cardinality(Gets(c)) = 2


\* C17: the emitted data is replaced as a whole: at the end of a cycle that
\* does not overlap another one the data is what this cycle's responses give
\* (its complete result when it succeeded, the empty default when it failed),
\* whatever the cycles before it had emitted.
C17_Wholesale ==
  \A c \in Cycles :
    /\ pc[c] = "rejected" => DataIsEmptyDefault
    /\ (pc[c] = "resolved" /\ kind = "PiHoleTopQueries") =>
         LET Emitted(x) == IF x.t = "object" THEN x ELSE Obj(<<>>)
         IN data = Obj([top_ads |-> Emitted(locals[c].blockedData),
                        top_queries |-> Emitted(locals[c].allowedData)])
    /\ (pc[c] = "resolved" /\ kind = "PiHoleStats") =>
         /\ data = locals[c].summaryJson
         /\ DOMAIN data.v \subseteq SummaryFields \cup {"status", "unique_clients"}
         /\ ("unique_clients" \in DOMAIN data.v) <=> (data.v.dns_queries_today = Num(1))
    /\ (pc[c] = "resolved" /\ kind = "PiHoleTraffic") =>
         LET total == locals[c].historyData.v.domains_over_time.v
             blocked == locals[c].historyData.v.ads_over_time.v
             t == locals[c].t.v
         IN /\ DOMAIN labels = DOMAIN t
            /\ \A i \in DOMAIN t : labels[i] = Label(t[i])
            /\ queriesData = [i \in DOMAIN t |-> total[i]]
            /\ blockedData = [i \in DOMAIN t |-> blocked[i]]

\* a cycle whose blocked payload was the empty mapping emitted exactly that
C17_Witness ==
  \E c \in Cycles :
    /\ kind = "PiHoleTopQueries"
    /\ pc[c] = "resolved"
    /\ locals[c].blockedData = Obj(<<>>)
    /\ locals[c].allowedData = QueriesMapping
    /\ data = Obj([top_ads |-> Obj(<<>>), top_queries |-> QueriesMapping])


\* C18: in PiHoleTopQueries the blocked and the allowed request of a cycle
\* carry the same count parameter: the integer the configured count parses
\* to when it is greater than 0, and 10 otherwise (missing, zero, negative,
\* not a number).
C18_ExpectedCount ==
  CASE options.count = Undefined -> "10"
    [] options.count = Num(5) -> "5"
    [] options.count = Num(0) -> "10"
    [] options.count = Num(-3) -> "10"
    [] options.count = Str("7") -> "7"
    [] options.count = Str("abc") -> "10"
    [] options.count = Str("2.5") -> "2"

C18_CountParameter ==
  \A c \in Cycles :
    kind = "PiHoleTopQueries" =>
      /\ \A i \in Gets(c) :
           requests[c][i].url \in
             {"/api/stats/top_domains?blocked=true&count=" \o C18_ExpectedCount,
              "/api/stats/top_domains?blocked=false&count=" \o C18_ExpectedCount}
      /\ pc[c] \in {"await_allowed", "resolved"} => Cardinality(Gets(c)) = 2

\* count was configured as 0: both requests went out with count=10
C18_Witness ==
  \E c \in Cycles :
    /\ kind = "PiHoleTopQueries"
    /\ options.count = Num(0)
    /\ Cardinality(Gets(c)) = 2
    /\ \E i \in Gets(c) :
         requests[c][i].url = "/api/stats/top_domains?blocked=true&count=10"
    /\ \E i \in Gets(c) :
         requests[c][i].url = "/api/stats/top_domains?blocked=false&count=10"


\* C14: sessions are never reused across cycles, also when two cycles
\* overlap: every cycle with a non-empty secret issues exactly one
\* authentication POST of its own, before its statistics requests, and the
\* sid header of each of its statistics requests is the token returned by
\* its own authentication response, the same on all of them.
C14_OwnToken(c) ==
  LET authData == locals[c].authData
  IN \A i \in Gets(c) :
       /\ Has(authData, "session") /\ Has(authData.v.session, "sid")
       /\ LET sid == authData.v.session.v.sid
          IN IF sid.t = "string" /\ sid.v # ""
             THEN requests[c][i].headers = [Accept |-> "application/json", sid |-> sid]
             ELSE requests[c][i].headers = [Accept |-> "application/json"]

C14_NoSessionReuse ==
  \A c \in Cycles :
    IF password # Str("")
    THEN /\ pc[c] # "idle" => (Posts(c) = {1} /\ requests[c][1] = AuthRequest)
         /\ C14_OwnToken(c)
    ELSE Posts(c) = {} /\ NoSidHeader(c)

\* two overlapping cycles were given different tokens and each sent its own
C14_Witness ==
  \E c, d \in Cycles :
    /\ c # d
    /\ password # Str("")
    /\ Gets(c) # {} /\ Gets(d) # {}
    /\ locals[c].sid = Str("tokA")
    /\ locals[d].sid = Str("tokB")
    /\ \A i \in Gets(c) : requests[c][i].headers.sid = Str("tokA")
    /\ \A i \in Gets(d) : requests[d][i].headers.sid = Str("tokB")


\* the emitted data is the complete result of cycle c
C19_ResultOf(c) ==
  CASE kind = "PiHoleTopQueries" ->
         LET Emitted(x) == IF x.t = "object" THEN x ELSE Obj(<<>>)
         IN data = Obj([top_ads |-> Emitted(locals[c].blockedData),
                        top_queries |-> Emitted(locals[c].allowedData)])
    [] kind = "PiHoleStats" ->
         /\ data = locals[c].summaryJson
         /\ SummaryFields \cup {"status"} \subseteq DOMAIN data.v
    [] kind = "PiHoleTraffic" ->
         LET total == locals[c].historyData.v.domains_over_time.v
             blocked == locals[c].historyData.v.ads_over_time.v
             t == locals[c].t.v
         IN /\ DOMAIN labels = DOMAIN t
            /\ queriesData = [i \in DOMAIN t |-> total[i]]
            /\ blockedData = [i \in DOMAIN t |-> blocked[i]]

C19_SameLength ==
  Len(labels) = Len(queriesData) /\ Len(queriesData) = Len(blockedData)

\* a step that changes the emitted data is the end of one cycle and leaves
\* the complete result of that cycle, or the empty default
C19_WholeStep ==
  (<<data, labels, queriesData, blockedData>>' # <<data, labels, queriesData, blockedData>>) =>
    \E c \in Cycles :
      /\ pc[c] \in Awaiting
      /\ \/ pc'[c] = "resolved" /\ C19_ResultOf(c)'
         \/ pc'[c] = "rejected" /\ DataIsEmptyDefault'

\* C19: emission is atomic with respect to the suspension points, also when
\* cycles overlap: the emitted data only ever changes, in one step, to the
\* complete result of the one cycle that ends in that step or to the empty
\* default, so that the two mappings of PiHoleTopQueries never come from two
\* cycles; labels, total series and blocked series of PiHoleTraffic always
\* have the same length.
C19_AtomicEmission == []C19_SameLength /\ [][C19_WholeStep]_vars

\* a cycle ended with its complete result while another one is suspended
\* between its two statistics requests
C19_Witness ==
  \E c, d \in Cycles :
    /\ kind = "PiHoleTopQueries"
    /\ pc[c] = "resolved"
    /\ pc[d] = "await_allowed"
    /\ locals[d].blockedData = QueriesMapping
    /\ data = Obj([top_ads |-> AdsMapping, top_queries |-> AdsMapping])
    /\ C19_ResultOf(c)


\* the step in which cycle c ends as the last of the running cycles leaves
\* the result of c, or the empty default when c failed
C20_LastToFinish(c) ==
  ( /\ pc[c] \in Awaiting
    /\ pc'[c] \in {"resolved", "rejected"}
    /\ \A d \in Cycles \ {c} : pc[d] \notin Awaiting ) =>
      /\ pc'[c] = "resolved" => C19_ResultOf(c)'
      /\ pc'[c] = "rejected" => DataIsEmptyDefault'

\* while no cycle is running nothing touches the emitted data
C20_QuietAfterwards ==
  (\A c \in Cycles : pc[c] \notin Awaiting) =>
    UNCHANGED <<data, labels, queriesData, blockedData>>

\* C20: when cycles overlap, the data left once all of them have finished is
\* that of the cycle that finished last, whatever the order in which they
\* started: the empty default when that one failed, even though another one
\* succeeded, and its own result when it succeeded.
C20_LastWins ==
  [][(\A c \in Cycles : C20_LastToFinish(c)) /\ C20_QuietAfterwards]_vars

\* a PiHoleStats cycle succeeded, another one failed after it: both have
\* finished and the data is empty
C20_Witness ==
  \E c, d \in Cycles :
    /\ kind = "PiHoleStats"
    /\ pc[c] = "resolved"
    /\ pc[d] = "rejected"
    /\ locals[c].summaryJson.t = "object"
    /\ data = Obj(<<>>)


\* the authentication response carries a session object whose sid is null
C21_SidIsNull(c) ==
  /\ Has(locals[c].authData, "session")
  /\ Has(locals[c].authData.v.session, "sid")
  /\ locals[c].authData.v.session.v.sid.t = "null"

\* C21: an authentication response whose session has sid = null is accepted
\* whatever its valid flag and message: the cycle raises no authentication
\* error and issues its statistics requests without a sid header, also for
\* {session: {sid: null, valid: false}}; the authentication error is raised
\* only when the session object or the sid field is missing.
C21_NullSidAccepted ==
  \A c \in Cycles :
    /\ C21_SidIsNull(c) =>
         /\ err[c] # Error(AuthErrorMessage)
         /\ locals[c].sid = Null
         /\ 2 \in Gets(c)
         /\ NoSidHeader(c)
    /\ err[c] = Error(AuthErrorMessage) =>
         \/ "session" \notin DOMAIN locals[c].authData.v
         \/ locals[c].authData.v.session.t = "null"
         \/ "sid" \notin DOMAIN locals[c].authData.v.session.v

\* the appliance rejected the secret with sid null and valid false; the
\* cycle went on and emitted its data from requests without a sid header
C21_Witness ==
  \E c \in Cycles :
    /\ locals[c].authData = PasswordRejected
    /\ pc[c] = "resolved"
    /\ Posts(c) = {1}
    /\ Gets(c) # {}
    /\ NoSidHeader(c)


\* the cycle has issued its blocking-status request
C22_StatusRequested(c) ==
  \E i \in Gets(c) : requests[c][i].url = "/api/dns/blocking"

\* C22: in PiHoleStats the summary payload is validated only after the
\* blocking-status fetch: whenever the summary request returned success the
\* blocking-status request is issued, also when the summary lacks required
\* fields, the validation error is only raised once the status call has
\* returned success, and an invalid summary followed by a non-success
\* status response fails the cycle with the fetch error of the status call.
C22_DeferredValidation ==
  \A c \in Cycles :
    kind = "PiHoleStats" =>
      /\ locals[c].summaryRes = Response(TRUE) => C22_StatusRequested(c)
      /\ (SummaryLacksField(locals[c].summaryJson) /\ pc[c] = "await_status") =>
           err[c] = NoError
      /\ err[c] = Error("Expected data was not returned from Pi-Hole") =>
           locals[c].statusRes = Response(TRUE)
      /\ (SummaryLacksField(locals[c].summaryJson)
            /\ locals[c].statusRes = Response(FALSE)) =>
           /\ pc[c] = "rejected"
           /\ err[c] = Error("Failed to fetch status")

\* the summary was {} and the status call answered with a non-success
\* status: the cycle failed with the fetch error of the status call
C22_Witness ==
  \E c \in Cycles :
    /\ kind = "PiHoleStats"
    /\ locals[c].summaryRes = Response(TRUE)
    /\ locals[c].summaryJson = Obj(<<>>)
    /\ C22_StatusRequested(c)
    /\ locals[c].statusRes = Response(FALSE)
    /\ pc[c] = "rejected"
    /\ err[c] = Error("Failed to fetch status")

====
